---- MODULE Spec2Model ----
(***************************************************************************)
(* GenericTree: a tree container that tracks parent/child relationships    *)
(* through integer indices into a flat slot vector, with a free list of    *)
(* reusable slots.  Three variants are modelled:                           *)
(*   "GT"  GenericTree<T>              payload = T* (identified by pointer)*)
(*   "GTR" GenericTree_Referential<T>  payload = T  (identified by index)  *)
(*   "NL"  GenericTree_Nodeless        no payload   (identified by index)  *)
(* C++ vectors are 0-based; a vector is modelled as a TLA+ sequence and    *)
(* slot i of the code is element i+1 of the sequence.                      *)
(* The default build is modelled: _assert(x) is assert(x), a failed        *)
(* assertion aborts the program (status "assert").                         *)
(***************************************************************************)
EXTENDS Integers, Sequences, FiniteSets, TLC

\* ---------------------------------------------------------------- bounds
\* The node vector never grows beyond MaxNodes slots.
MaxNodes == 3

\* ------------------------------------------------------------- constants
NOT_FOUND == -1
NoPayload == 0

Variants == {"GT", "GTR", "NL"}
\* GTR payload values, and (GT) the caller's vector of node addresses, as in
\* std::vector<int*> vec = { &x0, &x1, ... } of the example program.
Values == {1, 2}
Vec == <<1, 2, 3>>
Ptrs == {Vec[k] : k \in 1..Len(Vec)}

VARIABLES
  variant,     \* which of the three classes the tree object is an instance of
  nodes,       \* std::vector<NodeInfo> nodes
  free_list,   \* std::vector<int> free_list
  status,      \* "ok" | "assert" (abort) | "diverge" (endless loop/recursion) | "ub"
  last,        \* the last call: its name, arguments and return value
  orphaned,    \* history: a node with children was removed non-recursively
  misused,     \* history: a call was given an argument that names no live node
  max_live,    \* history: the most nodes live at one time since the last reset
  doc,         \* the caller's Diatom d = tree.toDiatom(), Nil before the call
  tree2,       \* the caller's second tree after tree2.fromDiatom(d)
  visits,      \* the visitor calls made by the last walk / walk_and_pass
  items        \* the caller's std::vector<T> ext_nodes of addNodeAndInsert

vars == <<variant, nodes, free_list, status, last, orphaned, misused, max_live, doc, tree2, visits,
          items>>

\* ------------------------------------------------------------- helpers

\* struct NodeInfo { T node; int index_of_parent; std::vector<int> children; }
NodeInfo(x, parent_ind, ch) ==
  [node |-> x, index_of_parent |-> parent_ind, children |-> ch]

\* `i < v.size()` with i an int and size() unsigned: a negative i converts to
\* a huge unsigned value, so the comparison is true exactly for 0 <= i < n.
InRangeU(i, n) == i >= 0 /\ i < n

\* What an operation leaves behind: the vectors as mutated up to the point
\* where it returned or stopped, its return value and how it ended.
Res(ns, fl, ret, st) == [nodes |-> ns, free_list |-> fl, ret |-> ret, status |-> st]

isEmpty(ns, fl) == Len(ns) = Len(fl)

indexIsInFreeList(fl, ind) == \E k \in 1..Len(fl) : fl[k] = ind

\* Ground truth used to draw valid arguments: slot i exists and is not free.
IsLive(ns, fl, i) == InRangeU(i, Len(ns)) /\ ~indexIsInFreeList(fl, i)
LiveSet(ns, fl) == {i \in 0..(Len(ns) - 1) : ~indexIsInFreeList(fl, i)}

\* while (nodes[i_top].index_of_parent != NOT_FOUND) i_top = ...index_of_parent;
\* The loop body changes no state, so revisiting a slot means it never ends:
\* more than Len(ns) hops within the vector revisit a slot.
RECURSIVE followParent(_, _, _)
followParent(ns, i, fuel) ==
  IF ~InRangeU(i, Len(ns)) THEN [st |-> "ub", i |-> i]
  ELSE IF ns[i + 1].index_of_parent = NOT_FOUND THEN [st |-> "ok", i |-> i]
  ELSE IF fuel = 0 THEN [st |-> "diverge", i |-> i]
  ELSE followParent(ns, ns[i + 1].index_of_parent, fuel - 1)

indexOfTopNode(ns, fl) ==
  IF isEmpty(ns, fl) THEN [st |-> "ok", i |-> NOT_FOUND]
  ELSE LET i_top == CHOOSE i \in 0..Len(fl) :
                      /\ ~indexIsInFreeList(fl, i)
                      /\ \A j \in 0..(i - 1) : indexIsInFreeList(fl, j)
       IN followParent(ns, i_top, Len(ns))

\* Leaving the parent's children list as it is.
removeChild_keep(ns, parent_ind, child_ind) == [st |-> "ok", nodes |-> ns]

\* Erasing by moving the last child into the erased position.
removeChild_swap(ns, parent_ind, child_ind) ==
  IF ~InRangeU(parent_ind, Len(ns)) \/ ~InRangeU(child_ind, Len(ns))
  THEN [st |-> "assert", nodes |-> ns]
  ELSE LET children == ns[parent_ind + 1].children
           hits == {k \in 1..Len(children) : children[k] = child_ind}
       IN IF hits = {} THEN [st |-> "assert", nodes |-> ns]
          ELSE LET it == CHOOSE k \in hits : \A m \in hits : k <= m
                   moved == [children EXCEPT ![it] = children[Len(children)]]
               IN [st |-> "ok",
                   nodes |-> [ns EXCEPT ![parent_ind + 1].children =
                                SubSeq(moved, 1, Len(children) - 1)]]

\* removeChild_ForNodeAtIndex: erase the first occurrence of child_ind from
\* the children of parent_ind; asserts both indices are in range and that the
\* child is found.
removeChild_ForNodeAtIndex(ns, parent_ind, child_ind) ==
  IF ~InRangeU(parent_ind, Len(ns)) \/ ~InRangeU(child_ind, Len(ns))
  THEN [st |-> "assert", nodes |-> ns]
  ELSE LET children == ns[parent_ind + 1].children
           hits == {k \in 1..Len(children) : children[k] = child_ind}
       IN IF hits = {} THEN [st |-> "assert", nodes |-> ns]
          ELSE LET it == CHOOSE k \in hits : \A m \in hits : k <= m
               IN [st |-> "ok",
                   nodes |-> [ns EXCEPT ![parent_ind + 1].children =
                                SubSeq(children, 1, it - 1) \o
                                SubSeq(children, it + 1, Len(children))]]

\* removeChildren(i): for each child c of i, in order: removeChildren(c), then
\* free_list.push_back(c).  Returns the indices pushed, in push order.  The
\* recursion changes only free_list, so a nesting deeper than Len(ns) walks a
\* cycle of children lists and never returns.
RECURSIVE removeChildren(_, _, _), removeChildrenLoop(_, _, _, _)
removeChildren(ns, i, fuel) ==
  IF ~InRangeU(i, Len(ns)) THEN [st |-> "assert", pushed |-> <<>>]
  ELSE IF fuel = 0 THEN [st |-> "diverge", pushed |-> <<>>]
  ELSE removeChildrenLoop(ns, ns[i + 1].children, 1, fuel - 1)
removeChildrenLoop(ns, children, k, fuel) ==
  IF k > Len(children) THEN [st |-> "ok", pushed |-> <<>>]
  ELSE LET r == removeChildren(ns, children[k], fuel)
       IN IF r.st # "ok" THEN r
          ELSE LET rest == removeChildrenLoop(ns, children, k + 1, fuel)
               IN [st |-> rest.st,
                   pushed |-> r.pushed \o <<children[k]>> \o rest.pushed]

\* Taking the first entry instead of the last one.
front(fl) == fl[1]

\* ind = free_list.back();
back(fl) == fl[Len(fl)]

\* free_list.pop_back();
pop_back(fl) == SubSeq(fl, 1, Len(fl) - 1)

\* The part of addNode shared by GenericTree and GenericTree_Referential once
\* the NodeInfo ni is built: take a slot (free list first), link to the parent,
\* or rebase the tree under the new node when it is inserted at the top.
addNodeSlot(ns, fl, ni, has_parent) ==
  LET was_empty == isEmpty(ns, fl)
      reuse == Len(fl) > 0
      ind == IF reuse THEN back(fl) ELSE Len(ns)
      fl1 == IF reuse THEN pop_back(fl) ELSE fl
  IN IF reuse /\ ~InRangeU(ind, Len(ns)) THEN Res(ns, fl1, NOT_FOUND, "assert")
     ELSE
       LET ns1 == IF reuse THEN [ns EXCEPT ![ind + 1] = ni] ELSE Append(ns, ni)
           p == ni.index_of_parent
       IN IF has_parent THEN
            IF ~InRangeU(p, Len(ns1)) THEN Res(ns1, fl1, NOT_FOUND, "ub")
            ELSE Res([ns1 EXCEPT ![p + 1].children = Append(@, ind)], fl1, ind, "ok")
          ELSE IF ~was_empty THEN
            LET top == indexOfTopNode(ns1, fl1)
                i_top == top.i
            IN IF top.st # "ok" THEN Res(ns1, fl1, NOT_FOUND, top.st)
               ELSE IF i_top = NOT_FOUND THEN Res(ns1, fl1, ind, "ok")
               ELSE LET ns2 == [ns1 EXCEPT ![ind + 1].children = Append(@, i_top)]
                    IN Res([ns2 EXCEPT ![i_top + 1].index_of_parent = ind],
                           fl1, ind, "ok")
          ELSE Res(ns1, fl1, ind, "ok")

\* Removing the last slot from the array instead of marking it free.
removeNodeAt_shrink(ns, fl, i, recursivelyRemoveChildren) ==
  IF i = Len(ns) - 1 THEN Res(SubSeq(ns, 1, Len(ns) - 1), fl, NOT_FOUND, "ok")
  ELSE Res(ns, Append(fl, i), NOT_FOUND, "ok")

\* The part of removeNode shared by GenericTree and GenericTree_Referential
\* once the index i is known.
removeNodeAt(ns, fl, i, recursivelyRemoveChildren) ==
  IF ~InRangeU(i, Len(ns)) THEN Res(ns, fl, NOT_FOUND, "ub")
  ELSE
    LET fl1 == Append(fl, i)
        i_parent == ns[i + 1].index_of_parent
        un == IF i_parent # NOT_FOUND
              THEN removeChild_ForNodeAtIndex(ns, i_parent, i)
              ELSE [st |-> "ok", nodes |-> ns]
    IN IF un.st # "ok" THEN Res(un.nodes, fl1, NOT_FOUND, un.st)
       ELSE IF recursivelyRemoveChildren THEN
         LET rc == removeChildren(un.nodes, i, Len(ns))
         IN Res(un.nodes, fl1 \o rc.pushed, NOT_FOUND, rc.st)
       ELSE Res(un.nodes, fl1, NOT_FOUND, "ok")

\* ---------------------------------------------- GenericTree_Referential

addNode_GTR(ns, fl, x, parent_ind) ==
  addNodeSlot(ns, fl, NodeInfo(x, parent_ind, <<>>), parent_ind # NOT_FOUND)

removeNode_GTR(ns, fl, i, recursivelyRemoveChildren) ==
  removeNodeAt(ns, fl, i, recursivelyRemoveChildren)

\* ---------------------------------------------------------- GenericTree
\* Payloads are addresses (T*); NULL is modelled as NoPayload.

\* for (i = 0; i < n; ++i) if (nodes[i].node == &x) return i;  -- every slot
\* is scanned, whether or not it is on the free list.
indexOfNode(ns, x) ==
  LET hits == {i \in 0..(Len(ns) - 1) : ns[i + 1].node = x}
  IN IF hits = {} THEN NOT_FOUND ELSE CHOOSE i \in hits : \A j \in hits : i <= j

nodeIsPresent(ns, fl, x) ==
  LET ind == indexOfNode(ns, x)
  IN IF ind # NOT_FOUND THEN ~indexIsInFreeList(fl, ind) ELSE FALSE

addNode_GT(ns, fl, x, parent) ==
  IF nodeIsPresent(ns, fl, x) THEN Res(ns, fl, NOT_FOUND, "assert")
  ELSE LET index_of_parent == IF parent # NoPayload THEN indexOfNode(ns, parent)
                              ELSE NOT_FOUND
       IN IF parent # NoPayload /\ index_of_parent = NOT_FOUND
          THEN Res(ns, fl, NOT_FOUND, "assert")
          ELSE addNodeSlot(ns, fl, NodeInfo(x, index_of_parent, <<>>),
                           parent # NoPayload)

removeNode_GT(ns, fl, x, recursivelyRemoveChildren) ==
  LET i == indexOfNode(ns, x)
  IN IF i = NOT_FOUND THEN Res(ns, fl, NOT_FOUND, "assert")
     ELSE removeNodeAt(ns, fl, i, recursivelyRemoveChildren)

\* ------------------------------------------------- GenericTree_Nodeless
\* struct Node { int parent; std::vector<int> children; }: the record keeps
\* the field name index_of_parent for parent, and node is always NoPayload.

\* `i > 0 && i < nodes.size()`
InRangePos(i, n) == i > 0 /\ i < n

addNode_NL(ns, fl, parent) ==
  LET node == NodeInfo(NoPayload, parent, <<>>)
      was_empty == isEmpty(ns, fl)
      top == IF was_empty THEN [st |-> "ok", i |-> NOT_FOUND]
             ELSE indexOfTopNode(ns, fl)
      i__prev_top == top.i
      reuse == Len(fl) > 0
      i == IF reuse THEN back(fl) ELSE Len(ns)
      fl1 == IF reuse THEN pop_back(fl) ELSE fl
  IN IF top.st # "ok" THEN Res(ns, fl, NOT_FOUND, top.st)
     ELSE IF reuse /\ ~InRangeU(i, Len(ns)) THEN Res(ns, fl1, NOT_FOUND, "ub")
     ELSE
       LET ns1 == IF reuse THEN [ns EXCEPT ![i + 1] = node] ELSE Append(ns, node)
       IN IF parent # NOT_FOUND THEN
            IF ~InRangeU(parent, Len(ns1)) THEN Res(ns1, fl1, NOT_FOUND, "ub")
            ELSE Res([ns1 EXCEPT ![parent + 1].children = Append(@, i)], fl1, i, "ok")
          ELSE IF ~was_empty THEN
            IF ~InRangeU(i__prev_top, Len(ns1)) THEN Res(ns1, fl1, NOT_FOUND, "ub")
            ELSE LET ns2 == [ns1 EXCEPT ![i + 1].children = Append(@, i__prev_top)]
                 IN Res([ns2 EXCEPT ![i__prev_top + 1].index_of_parent = i],
                        fl1, i, "ok")
          ELSE Res(ns1, fl1, i, "ok")

\* The result of addNodeAndInsert: the tree and the caller's vector.
ResExt(r, ext, st) ==
  [nodes |-> r.nodes, free_list |-> r.free_list, ret |-> r.ret, status |-> st,
   items |-> ext]

\* ext_nodes.push_back(item) whatever the index is.
addNodeAndInsert_push(ns, fl, parent, item, ext) ==
  LET r == addNode_NL(ns, fl, parent)
  IN IF r.status # "ok" THEN ResExt(r, ext, r.status)
     ELSE ResExt(r, Append(ext, item), "ok")

\* GenericTree_Nodeless::addNodeAndInsert(parent, item, ext_nodes); writing
\* ext_nodes[i] beyond the end of the vector is undefined.
addNodeAndInsert(ns, fl, parent, item, ext) ==
  LET r == addNode_NL(ns, fl, parent)
      i == r.ret
  IN IF r.status # "ok" THEN ResExt(r, ext, r.status)
     ELSE IF i = Len(ext) THEN ResExt(r, Append(ext, item), "ok")
     ELSE IF ~InRangeU(i, Len(ext)) THEN ResExt(r, ext, "ub")
     ELSE ResExt(r, [ext EXCEPT ![i + 1] = item], "ok")

\* unmakeChild: asserts both indices are > 0 and in range; erases the first
\* occurrence of the child if there is one, and does nothing otherwise.
unmakeChild(ns, parent, child_to_remove) ==
  IF ~InRangePos(parent, Len(ns)) \/ ~InRangePos(child_to_remove, Len(ns))
  THEN [st |-> "assert", nodes |-> ns]
  ELSE LET children == ns[parent + 1].children
           hits == {k \in 1..Len(children) : children[k] = child_to_remove}
       IN IF hits = {} THEN [st |-> "ok", nodes |-> ns]
          ELSE LET it == CHOOSE k \in hits : \A m \in hits : k <= m
               IN [st |-> "ok",
                   nodes |-> [ns EXCEPT ![parent + 1].children =
                                SubSeq(children, 1, it - 1) \o
                                SubSeq(children, it + 1, Len(children))]]

removeNode_NL(ns, fl, i, recursively_remove_children) ==
  IF ~InRangePos(i, Len(ns)) THEN Res(ns, fl, NOT_FOUND, "assert")
  ELSE
    LET fl1 == Append(fl, i)
        parent == ns[i + 1].index_of_parent
        un == IF parent # NOT_FOUND THEN unmakeChild(ns, parent, i)
              ELSE [st |-> "ok", nodes |-> ns]
    IN IF un.st # "ok" THEN Res(un.nodes, fl1, NOT_FOUND, un.st)
       ELSE IF recursively_remove_children THEN
         LET rc == removeChildren(un.nodes, i, Len(ns))
         IN Res(un.nodes, fl1 \o rc.pushed, NOT_FOUND, rc.st)
       ELSE Res(un.nodes, fl1, NOT_FOUND, "ok")

\* ------------------------------------------------------------- Diatom
\* The nested document the trees are serialized to.  A Diatom is nil, a
\* number or a table; a table keeps its entries in insertion order and
\* each() visits them in that order.
Nil == [kind |-> "nil"]
Num(n) == [kind |-> "number", n |-> n]
Tbl(entries) == [kind |-> "table", entries |-> entries]
Entry(key, val) == [key |-> key, val |-> val]
is_table(d) == d.kind = "table"
is_number(d) == d.kind = "number"

\* d[key] on a table: the entry's value, nil when there is none.
Field(d, key) ==
  IF is_table(d) /\ \E k \in 1..Len(d.entries) : d.entries[k].key = key
  THEN d.entries[CHOOSE k \in 1..Len(d.entries) : d.entries[k].key = key].val
  ELSE Nil

\* std::string("n") + std::to_string(i)
srlz_index(i) == <<"n", i>>

\* Writing each entry's position instead of its value.
IndexTable_positions(inds) ==
  Tbl([j \in 1..Len(inds) |-> Entry(srlz_index(j - 1), Num(j - 1))])

\* The index list  dch[srlz_index(j++)] = (double) ind  for each ind of inds.
IndexTable(inds) ==
  Tbl([j \in 1..Len(inds) |-> Entry(srlz_index(j - 1), Num(inds[j]))])

\* each() over a table of numbers with  _assert(dc.is_number()); push_back:
\* the values pushed before the first entry that is not a number, and
\* whether every entry was one.
NumbersOf(d) ==
  LET bad == {k \in 1..Len(d.entries) : ~is_number(d.entries[k].val)}
      n == IF bad = {} THEN Len(d.entries)
           ELSE (CHOOSE k \in bad : \A m \in bad : k <= m) - 1
  IN [ok |-> bad = {}, seq |-> [k \in 1..n |-> d.entries[k].val.n]]

\* What fromDiatom leaves in the target tree, and how it ended.
Tree(ns, fl, st) == [nodes |-> ns, free_list |-> fl, status |-> st]

\* each() over the "tree" table, given the outcome [ok, node] of the callback
\* on each entry: the nodes pushed before the first entry that fails an
\* assertion, and whether all were decoded.
DecodeNodes(decoded) ==
  LET bad == {k \in 1..Len(decoded) : ~decoded[k].ok}
      n == IF bad = {} THEN Len(decoded)
           ELSE (CHOOSE k \in bad : \A m \in bad : k <= m) - 1
  IN [ok |-> bad = {}, seq |-> [k \in 1..n |-> decoded[k].node]]

\* _toDiatom / _fromDiatom of the payload type (int), as the example
\* program defines them: Diatom d = (double) x;  return d.number_value();
_toDiatom(x) == Num(x)
_fromDiatom(d) == IF is_number(d) THEN d.n ELSE NoPayload

\* --------------------------------- GenericTree_Referential serialization

toDiatom_GTR(ns, fl) ==
  Tbl(<<
    Entry("tree",
      Tbl([i \in 1..Len(ns) |->
        Entry(srlz_index(i - 1),
          Tbl(<<Entry("node", _toDiatom(ns[i].node)),
                Entry("parent_ind", Num(ns[i].index_of_parent)),
                Entry("child_inds", IndexTable(ns[i].children))>>))])),
    Entry("free_list", IndexTable(fl))>>)

decodeNode_GTR(dn) ==
  LET d_node == Field(dn, "node")
      d_parent_ind == Field(dn, "parent_ind")
      d_child_inds == Field(dn, "child_inds")
  IN IF ~is_number(d_parent_ind) \/ ~is_table(d_child_inds)
     THEN [ok |-> FALSE, node |-> Nil]
     ELSE LET ch == NumbersOf(d_child_inds)
          IN [ok |-> ch.ok,
              node |-> NodeInfo(_fromDiatom(d_node), d_parent_ind.n, ch.seq)]

\* fromDiatom on a target that holds (ns, fl).
fromDiatom_GTR(ns, fl, d) ==
  IF ~is_table(d) THEN Tree(ns, fl, "assert")
  ELSE
    LET d_tree == Field(d, "tree")
        d_free_list == Field(d, "free_list")
    IN IF ~is_table(d_tree) \/ ~is_table(d_free_list)
       THEN Tree(<<>>, <<>>, "assert")            \* reset() has already run
       ELSE LET dec == DecodeNodes([k \in 1..Len(d_tree.entries) |->
                                     decodeNode_GTR(d_tree.entries[k].val)])
                f == NumbersOf(d_free_list)
            IN IF ~dec.ok THEN Tree(dec.seq, <<>>, "assert")
               ELSE Tree(dec.seq, f.seq, IF f.ok THEN "ok" ELSE "assert")

\* ------------------------------------------- GenericTree serialization

indexOfOriginalNodeInVector(node, vec) ==
  LET hits == {k \in 1..Len(vec) : vec[k] = node}
  IN IF hits = {} THEN NOT_FOUND
     ELSE (CHOOSE k \in hits : \A m \in hits : k <= m) - 1

\* toDiatom(original_nodes): asserts every slot's payload is in the vector.
\* [ok, d]: ok is FALSE when that assertion fails.
toDiatom_GT(ns, fl, original_nodes) ==
  [ok |-> \A i \in 1..Len(ns) :
            indexOfOriginalNodeInVector(ns[i].node, original_nodes) # NOT_FOUND,
   d |-> Tbl(<<
     Entry("tree",
       Tbl([i \in 1..Len(ns) |->
         Entry(srlz_index(i - 1),
           Tbl(<<Entry("node_orig_ind",
                   Num(indexOfOriginalNodeInVector(ns[i].node, original_nodes))),
                 Entry("parent_gt_ind", Num(ns[i].index_of_parent)),
                 Entry("child_gt_inds", IndexTable(ns[i].children))>>))])),
     Entry("free_list", IndexTable(fl))>>)]

decodeNode_GT(dn, ext_nodes) ==
  LET d_node_orig_ind == Field(dn, "node_orig_ind")
      d_parent_gt_ind == Field(dn, "parent_gt_ind")
      d_child_gt_inds == Field(dn, "child_gt_inds")
  IN IF \/ ~is_number(d_node_orig_ind) \/ ~is_number(d_parent_gt_ind)
        \/ ~is_table(d_child_gt_inds)
     THEN [ok |-> FALSE, node |-> Nil]
     ELSE IF ~InRangeU(d_node_orig_ind.n, Len(ext_nodes))
     THEN [ok |-> FALSE, node |-> Nil]
     ELSE LET ch == NumbersOf(d_child_gt_inds)
          IN [ok |-> ch.ok,
              node |-> NodeInfo(ext_nodes[d_node_orig_ind.n + 1],
                                d_parent_gt_ind.n, ch.seq)]

fromDiatom_GT(ns, fl, d, ext_nodes) ==
  IF ~is_table(d) THEN Tree(ns, fl, "assert")
  ELSE
    LET d_tree == Field(d, "tree")
        d_free_list == Field(d, "free_list")
    IN IF ~is_table(d_tree) \/ ~is_table(d_free_list)
       THEN Tree(<<>>, <<>>, "assert")            \* reset() has already run
       ELSE LET dec == DecodeNodes([k \in 1..Len(d_tree.entries) |->
                                     decodeNode_GT(d_tree.entries[k].val, ext_nodes)])
                f == NumbersOf(d_free_list)
            IN IF ~dec.ok THEN Tree(dec.seq, <<>>, "assert")
               ELSE Tree(dec.seq, f.seq, IF f.ok THEN "ok" ELSE "assert")

\* ---------------------------------- GenericTree_Nodeless serialization

toDiatom_NL(ns, fl) ==
  Tbl(<<
    Entry("tree",
      Tbl([i \in 1..Len(ns) |->
        Entry(srlz_index(i - 1),
          Tbl(<<Entry("i", Num(i - 1)),
                Entry("i__parent", Num(ns[i].index_of_parent)),
                Entry("i__children", IndexTable(ns[i].children))>>))])),
    \* d["free_list"][srlz_index(i)] = (double) i;
    Entry("free_list",
      Tbl([i \in 1..Len(fl) |-> Entry(srlz_index(i - 1), Num(i - 1))]))>>)

decodeNode_NL(item) ==
  IF \/ ~is_number(Field(item, "i")) \/ ~is_number(Field(item, "i__parent"))
     \/ ~is_table(Field(item, "i__children"))
  THEN [ok |-> FALSE, node |-> Nil, i |-> NOT_FOUND]
  ELSE LET ch == NumbersOf(Field(item, "i__children"))
       IN [ok |-> ch.ok, i |-> Field(item, "i").n,
           node |-> NodeInfo(NoPayload, Field(item, "i__parent").n, ch.seq)]

\* if (nodes.size() <= i) nodes.resize(i + 1);  nodes[i] = n;
\* resize() value-initializes the new slots: parent 0, no children.
RECURSIVE placeNodes_NL(_, _, _)
placeNodes_NL(ns, entries, k) ==
  IF k > Len(entries) THEN [st |-> "ok", nodes |-> ns]
  ELSE LET item == decodeNode_NL(entries[k].val)
       IN IF ~item.ok THEN [st |-> "assert", nodes |-> ns]
          ELSE IF item.i < 0 THEN [st |-> "ub", nodes |-> ns]
          ELSE LET grown == [j \in 1..(IF Len(ns) <= item.i THEN item.i + 1 ELSE Len(ns))
                               |-> IF j <= Len(ns) THEN ns[j]
                                   ELSE NodeInfo(NoPayload, 0, <<>>)]
               IN placeNodes_NL([grown EXCEPT ![item.i + 1] = item.node],
                                entries, k + 1)

fromDiatom_NL(ns, fl, d) ==
  IF ~is_table(d) \/ ~is_table(Field(d, "tree")) \/ ~is_table(Field(d, "free_list"))
  THEN Tree(ns, fl, "assert")
  ELSE LET placed == placeNodes_NL(<<>>, Field(d, "tree").entries, 1)
           f == NumbersOf(Field(d, "free_list"))
       IN IF placed.st # "ok" THEN Tree(placed.nodes, <<>>, placed.st)
          ELSE Tree(placed.nodes, f.seq, IF f.ok THEN "ok" ELSE "assert")

\* ---------------------------------------------------------- traversal
\* A visitor call: the slot, its payload, and what else the visitor is
\* handed (walk of GenericTree_Referential: the indent; walk_and_pass: the
\* parent's value r_parent) and what it returns.
Visit(i, node, arg, ret) == [i |-> i, node |-> node, arg |-> arg, ret |-> ret]
DEFAULT_START == -2

\* walk(f, i = -2, indent = 0) of GenericTree_Referential and GenericTree
\* (whose visitor takes no indent):
\*   if (i == -2) i = indexOfTopNode();  if (i == NOT_FOUND) return;
\*   f(nodes[i].node, i, indent);  for (auto &i : nodes[i].children) walk(f, i, indent + 1);
\* Nothing is written, so a nesting deeper than Len(ns) has a slot twice on
\* the call stack and never returns.
RECURSIVE walk(_, _, _, _, _), walkChildren(_, _, _, _, _, _)
walk(ns, fl, i, indent, fuel) ==
  LET top == IF i = DEFAULT_START THEN indexOfTopNode(ns, fl) ELSE [st |-> "ok", i |-> i]
  IN IF top.st # "ok" THEN [st |-> top.st, visits |-> <<>>]
     ELSE IF top.i = NOT_FOUND THEN [st |-> "ok", visits |-> <<>>]
     ELSE IF ~InRangeU(top.i, Len(ns)) THEN [st |-> "ub", visits |-> <<>>]
     ELSE IF fuel = 0 THEN [st |-> "diverge", visits |-> <<>>]
     ELSE LET rest == walkChildren(ns, fl, ns[top.i + 1].children, 1, indent + 1, fuel - 1)
          IN [st |-> rest.st,
              visits |-> <<Visit(top.i, ns[top.i + 1].node, indent, NOT_FOUND)>>
                           \o rest.visits]
walkChildren(ns, fl, children, k, indent, fuel) ==
  IF k > Len(children) THEN [st |-> "ok", visits |-> <<>>]
  ELSE LET r == walk(ns, fl, children[k], indent, fuel)
       IN IF r.st # "ok" THEN r
          ELSE LET rest == walkChildren(ns, fl, children, k + 1, indent, fuel)
               IN [st |-> rest.st, visits |-> r.visits \o rest.visits]

\* walk(f, i = -2) of GenericTree_Nodeless:
\*   if (i == -1) return;  if (i == -2) i = indexOfTopNode();
\*   f(i);  for (auto &i : nodes[i].children) walk(f, i);
\* The test for -1 comes before the default start is resolved.
RECURSIVE walk_NL(_, _, _, _), walkChildren_NL(_, _, _, _, _)
walk_NL(ns, fl, i, fuel) ==
  IF i = NOT_FOUND THEN [st |-> "ok", visits |-> <<>>]
  ELSE
    LET top == IF i = DEFAULT_START THEN indexOfTopNode(ns, fl) ELSE [st |-> "ok", i |-> i]
    IN IF top.st # "ok" THEN [st |-> top.st, visits |-> <<>>]
       ELSE IF fuel = 0 THEN [st |-> "diverge", visits |-> <<>>]
       ELSE LET v == <<Visit(top.i, NoPayload, NOT_FOUND, NOT_FOUND)>>
            IN IF ~InRangeU(top.i, Len(ns)) THEN [st |-> "ub", visits |-> v]
               ELSE LET rest == walkChildren_NL(ns, fl, ns[top.i + 1].children, 1, fuel - 1)
                    IN [st |-> rest.st, visits |-> v \o rest.visits]
walkChildren_NL(ns, fl, children, k, fuel) ==
  IF k > Len(children) THEN [st |-> "ok", visits |-> <<>>]
  ELSE LET r == walk_NL(ns, fl, children[k], fuel)
       IN IF r.st # "ok" THEN r
          ELSE LET rest == walkChildren_NL(ns, fl, children, k + 1, fuel)
               IN [st |-> rest.st, visits |-> r.visits \o rest.visits]

\* The visitor the caller passes to walk_and_pass: its Return is an int, one
\* more than the value it is handed.
Visitor(node, r_parent, i) == r_parent + 1

\* Handing every child the caller's seed instead of the parent's value.
passSeed(r_parent, r) == r_parent

\* The value walk_and_pass hands on to the children of a node:
\*   Return r = f(nodes[i].node, r_parent, i);  ... walk_and_pass(f, r, i);
passOn(r_parent, r) == r

\* walk_and_pass(f, r_parent, i = -2) of GenericTree_Referential.
RECURSIVE walk_and_pass(_, _, _, _, _), walk_and_passChildren(_, _, _, _, _, _)
walk_and_pass(ns, fl, r_parent, i, fuel) ==
  LET top == IF i = DEFAULT_START THEN indexOfTopNode(ns, fl) ELSE [st |-> "ok", i |-> i]
  IN IF top.st # "ok" THEN [st |-> top.st, visits |-> <<>>]
     ELSE IF top.i = NOT_FOUND THEN [st |-> "ok", visits |-> <<>>]
     ELSE IF ~InRangeU(top.i, Len(ns)) THEN [st |-> "ub", visits |-> <<>>]
     ELSE IF fuel = 0 THEN [st |-> "diverge", visits |-> <<>>]
     ELSE LET r == Visitor(ns[top.i + 1].node, r_parent, top.i)
              rest == walk_and_passChildren(ns, fl, passOn(r_parent, r),
                                            ns[top.i + 1].children, 1, fuel - 1)
          IN [st |-> rest.st,
              visits |-> <<Visit(top.i, ns[top.i + 1].node, r_parent, r)>> \o rest.visits]
walk_and_passChildren(ns, fl, r, children, k, fuel) ==
  IF k > Len(children) THEN [st |-> "ok", visits |-> <<>>]
  ELSE LET one == walk_and_pass(ns, fl, r, children[k], fuel)
       IN IF one.st # "ok" THEN one
          ELSE LET rest == walk_and_passChildren(ns, fl, r, children, k + 1, fuel)
               IN [st |-> rest.st, visits |-> one.visits \o rest.visits]

\* reset(): nodes.clear(); free_list.clear();
reset(ns, fl) == Res(<<>>, <<>>, NOT_FOUND, "ok")

\* ---------------------------------------------------------------- actions
\* Callers pass valid arguments: a parent or a node to remove is one that is
\* currently live, and (GT) a payload to add is one no live slot holds.

Call(op, x, parent, i, rec, ret) ==
  [op |-> op, x |-> x, parent |-> parent, i |-> i, rec |-> rec, ret |-> ret]

\* A node is orphaned when the slot a non-recursive removeNode frees has
\* children.
Orphans(r, call) ==
  /\ call.op = "removeNode" /\ ~call.rec
  /\ Len(r.free_list) > Len(free_list)
  /\ nodes[r.free_list[Len(free_list) + 1] + 1].children # <<>>

\* (GT) the payloads held by live slots.
LivePayloads(ns, fl) == {ns[i + 1].node : i \in LiveSet(ns, fl)}

\* The parent an addNode call names, or the node a removeNode call names, is
\* not live: no live slot has that index or (GenericTree) holds that payload.
NamesNoLiveNode(call) ==
  \/ /\ call.op = "addNode"
     /\ IF variant = "GT"
        THEN call.parent # NoPayload /\ call.parent \notin LivePayloads(nodes, free_list)
        ELSE call.parent # NOT_FOUND /\ call.parent \notin LiveSet(nodes, free_list)
  \/ /\ call.op = "removeNode"
     /\ IF variant = "GT"
        THEN call.x \notin LivePayloads(nodes, free_list)
        ELSE call.i \notin LiveSet(nodes, free_list)

\* The tree is operated on before the caller serializes it.  A caller is
\* followed up to its first call with an argument that names no live node.
ApplyWith(r, call, ext) ==
  /\ doc = Nil /\ ~misused
  /\ nodes' = r.nodes
  /\ free_list' = r.free_list
  /\ status' = r.status
  /\ last' = call
  /\ orphaned' = IF call.op = "reset" THEN FALSE ELSE (orphaned \/ Orphans(r, call))
  /\ misused' = IF call.op = "reset" THEN FALSE ELSE (misused \/ NamesNoLiveNode(call))
  /\ max_live' = LET n == Cardinality(LiveSet(r.nodes, r.free_list))
                 IN IF call.op = "reset" THEN 0
                    ELSE IF n > max_live THEN n ELSE max_live
  /\ visits' = <<>>
  /\ items' = ext
  /\ UNCHANGED <<variant, doc, tree2>>

\* An operation of the tree itself leaves the caller's vector alone.
Apply(r, call) == ApplyWith(r, call, items)

\* Growth is capped: a call that would append a slot is made only below
\* MaxNodes, and a call is made only if it leaves at most MaxNodes free-list
\* entries and fewer than MaxNodes entries in every children list.  A tree
\* of at most MaxNodes slots whose lists have no repeated entries is always
\* within these caps; lists with repeated or stale entries could otherwise
\* grow without limit.
CanAdd == Len(free_list) > 0 \/ Len(nodes) < MaxNodes
Bounded(r) ==
  /\ Len(r.free_list) <= MaxNodes
  /\ \A k \in 1..Len(r.nodes) : Len(r.nodes[k].children) < MaxNodes


AddNode_GTR ==
  /\ variant = "GTR" /\ status = "ok" /\ CanAdd
  /\ \E x \in Values, parent_ind \in {NOT_FOUND} \cup LiveSet(nodes, free_list) :
       LET r == addNode_GTR(nodes, free_list, x, parent_ind)
       IN Bounded(r) /\ Apply(r, Call("addNode", x, parent_ind, NOT_FOUND, FALSE, r.ret))

RemoveNode_GTR(rec) ==
  /\ variant = "GTR" /\ status = "ok"
  /\ \E i \in LiveSet(nodes, free_list) :
       LET r == removeNode_GTR(nodes, free_list, i, rec)
       IN Bounded(r) /\ Apply(r, Call("removeNode", NoPayload, NOT_FOUND, i, rec, r.ret))

AddNode_GT ==
  /\ variant = "GT" /\ status = "ok" /\ CanAdd
  /\ \E x \in Ptrs \ LivePayloads(nodes, free_list),
        parent \in {NoPayload} \cup LivePayloads(nodes, free_list) :
       LET r == addNode_GT(nodes, free_list, x, parent)
       IN Bounded(r) /\ Apply(r, Call("addNode", x, parent, NOT_FOUND, FALSE, r.ret))

RemoveNode_GT(rec) ==
  /\ variant = "GT" /\ status = "ok"
  /\ \E x \in LivePayloads(nodes, free_list) :
       LET r == removeNode_GT(nodes, free_list, x, rec)
       IN Bounded(r) /\ Apply(r, Call("removeNode", x, NoPayload, NOT_FOUND, rec, r.ret))

AddNode_NL ==
  /\ variant = "NL" /\ status = "ok" /\ CanAdd
  /\ \E parent \in {NOT_FOUND} \cup LiveSet(nodes, free_list) :
       LET r == addNode_NL(nodes, free_list, parent)
       IN Bounded(r) /\ Apply(r, Call("addNode", NoPayload, parent, NOT_FOUND, FALSE, r.ret))

RemoveNode_NL(rec) ==
  /\ variant = "NL" /\ status = "ok"
  /\ \E i \in LiveSet(nodes, free_list) :
       LET r == removeNode_NL(nodes, free_list, i, rec)
       IN Bounded(r) /\ Apply(r, Call("removeNode", NoPayload, NOT_FOUND, i, rec, r.ret))

\* int i = tree.addNodeAndInsert(parent, item, ext_nodes);
AddNodeAndInsert ==
  /\ variant = "NL" /\ status = "ok" /\ CanAdd
  /\ \E parent \in {NOT_FOUND} \cup LiveSet(nodes, free_list), item \in Values :
       LET r == addNodeAndInsert(nodes, free_list, parent, item, items)
       IN Bounded(r) /\ ApplyWith(r, Call("addNodeAndInsert", item, parent, NOT_FOUND,
                                          FALSE, r.ret), r.items)

Reset ==
  /\ status = "ok"
  /\ nodes # <<>>
  /\ Apply(reset(nodes, free_list),
           Call("reset", NoPayload, NOT_FOUND, NOT_FOUND, FALSE, NOT_FOUND))

\* Diatom d = tree.toDiatom();
ToDiatom ==
  /\ status = "ok" /\ doc = Nil
  /\ LET gt == toDiatom_GT(nodes, free_list, Vec)
     IN /\ doc' = IF variant = "GTR" THEN toDiatom_GTR(nodes, free_list)
                  ELSE IF variant = "GT" THEN gt.d
                  ELSE toDiatom_NL(nodes, free_list)
        /\ status' = IF variant = "GT" /\ ~gt.ok THEN "assert" ELSE "ok"
  /\ last' = Call("toDiatom", NoPayload, NOT_FOUND, NOT_FOUND, FALSE, NOT_FOUND)
  /\ visits' = <<>>
  /\ UNCHANGED <<variant, nodes, free_list, orphaned, misused, max_live, tree2, items>>

\* A tree that has been in use: three nodes in a chain, the last one removed.
UsedTree(v) ==
  IF v = "GTR" THEN
    LET a == addNode_GTR(<<>>, <<>>, 1, NOT_FOUND)
        b == addNode_GTR(a.nodes, a.free_list, 2, 0)
        c == addNode_GTR(b.nodes, b.free_list, 1, 1)
    IN removeNode_GTR(c.nodes, c.free_list, 2, TRUE)
  ELSE IF v = "GT" THEN
    LET a == addNode_GT(<<>>, <<>>, Vec[1], NoPayload)
        b == addNode_GT(a.nodes, a.free_list, Vec[2], Vec[1])
        c == addNode_GT(b.nodes, b.free_list, Vec[3], Vec[2])
    IN removeNode_GT(c.nodes, c.free_list, Vec[3], TRUE)
  ELSE
    LET a == addNode_NL(<<>>, <<>>, NOT_FOUND)
        b == addNode_NL(a.nodes, a.free_list, 0)
        c == addNode_NL(b.nodes, b.free_list, 1)
    IN removeNode_NL(c.nodes, c.free_list, 2, TRUE)

\* The trees fromDiatom is called on: a new one and a used one.
Targets(v) == {Tree(<<>>, <<>>, "ok"),
               Tree(UsedTree(v).nodes, UsedTree(v).free_list, "ok")}

\* tree2.fromDiatom(d);
FromDiatom ==
  /\ status = "ok" /\ doc # Nil /\ tree2.status = "none"
  /\ \E t \in Targets(variant) :
       /\ tree2' = IF variant = "GTR" THEN fromDiatom_GTR(t.nodes, t.free_list, doc)
                   ELSE IF variant = "GT" THEN fromDiatom_GT(t.nodes, t.free_list, doc, Vec)
                   ELSE fromDiatom_NL(t.nodes, t.free_list, doc)
       \* last.i records the size of the target before the call
       /\ last' = Call("fromDiatom", NoPayload, NOT_FOUND, Len(t.nodes), FALSE, NOT_FOUND)
  /\ UNCHANGED <<variant, nodes, free_list, status, orphaned, misused, max_live, doc, visits, items>>

\* The document without its entry for key.
DropField(d, key) == Tbl(SelectSeq(d.entries, LAMBDA e : e.key # key))

\* The document with one more entry, n, at the end of its free_list table.
WithFreeEntry(d, n) ==
  LET f == Field(d, "free_list")
      f1 == Tbl(Append(f.entries, Entry(srlz_index(Len(f.entries)), Num(n))))
  IN Tbl([k \in 1..Len(d.entries) |->
            IF d.entries[k].key = "free_list" THEN Entry("free_list", f1)
            ELSE d.entries[k]])

\* Documents toDiatom did not write, made from one it wrote: a number, the
\* document without its tree or without its free_list table, and the
\* document with a free-list entry equal to the number of nodes.
Documents(d) ==
  <<Num(0), DropField(d, "tree"), DropField(d, "free_list"),
    WithFreeEntry(d, Len(Field(d, "tree").entries))>>

\* _assert(d.is_table()); _assert(d["tree"].is_table());
\* _assert(d["free_list"].is_table());
Malformed(d) ==
  ~is_table(d) \/ ~is_table(Field(d, "tree")) \/ ~is_table(Field(d, "free_list"))

\* tree.fromDiatom(d) on the tree that is in use; last.x records which of
\* Documents(doc) was passed.
LoadDiatom ==
  /\ status = "ok" /\ doc # Nil
  /\ \E k \in 1..Len(Documents(doc)) :
       LET d == Documents(doc)[k]
           t == IF variant = "GTR" THEN fromDiatom_GTR(nodes, free_list, d)
                ELSE IF variant = "GT" THEN fromDiatom_GT(nodes, free_list, d, Vec)
                ELSE fromDiatom_NL(nodes, free_list, d)
       IN /\ Len(t.free_list) <= MaxNodes
          /\ nodes' = t.nodes
          /\ free_list' = t.free_list
          /\ status' = t.status
          /\ last' = Call("fromDiatom", k, NOT_FOUND, NOT_FOUND, FALSE, NOT_FOUND)
          \* the history starts again where fromDiatom has called reset()
          /\ max_live' = IF t.nodes = nodes /\ t.free_list = free_list THEN max_live
                         ELSE Cardinality(LiveSet(t.nodes, t.free_list))
  /\ doc' = Nil
  /\ visits' = <<>>
  /\ UNCHANGED <<variant, orphaned, misused, tree2, items>>

\* Indices that name no live slot: freed slots, the first index past the
\* array, and a negative index that is not the none sentinel.
NotLiveIndices(ns, fl) ==
  {i \in 0..(Len(ns) - 1) : indexIsInFreeList(fl, i)} \cup {Len(ns), -2}

\* addNode with a parent argument that is not a live slot or (GenericTree)
\* not the payload of a live slot.
AddNodeBadParent ==
  /\ status = "ok" /\ CanAdd
  /\ \/ /\ variant = "GTR"
        /\ \E x \in Values, parent_ind \in NotLiveIndices(nodes, free_list) :
             LET r == addNode_GTR(nodes, free_list, x, parent_ind)
             IN Bounded(r) /\ Apply(r, Call("addNode", x, parent_ind, NOT_FOUND, FALSE, r.ret))
     \/ /\ variant = "GT"
        /\ \E x \in Ptrs \ LivePayloads(nodes, free_list),
              parent \in Ptrs \ LivePayloads(nodes, free_list) :
             LET r == addNode_GT(nodes, free_list, x, parent)
             IN Bounded(r) /\ Apply(r, Call("addNode", x, parent, NOT_FOUND, FALSE, r.ret))
     \/ /\ variant = "NL"
        /\ \E parent \in NotLiveIndices(nodes, free_list) :
             LET r == addNode_NL(nodes, free_list, parent)
             IN Bounded(r) /\ Apply(r, Call("addNode", NoPayload, parent, NOT_FOUND, FALSE, r.ret))

\* removeNode of an index that is not a live slot or (GenericTree) of a
\* payload no live slot holds.
RemoveNodeNotLive ==
  /\ status = "ok"
  /\ \E rec \in BOOLEAN :
     \/ /\ variant = "GTR"
        /\ \E i \in NotLiveIndices(nodes, free_list) :
             LET r == removeNode_GTR(nodes, free_list, i, rec)
             IN Bounded(r) /\ Apply(r, Call("removeNode", NoPayload, NOT_FOUND, i, rec, r.ret))
     \/ /\ variant = "GT"
        /\ \E x \in Ptrs \ LivePayloads(nodes, free_list) :
             LET r == removeNode_GT(nodes, free_list, x, rec)
             IN Bounded(r) /\ Apply(r, Call("removeNode", x, NoPayload, NOT_FOUND, rec, r.ret))
     \/ /\ variant = "NL"
        /\ \E i \in NotLiveIndices(nodes, free_list) :
             LET r == removeNode_NL(nodes, free_list, i, rec)
             IN Bounded(r) /\ Apply(r, Call("removeNode", NoPayload, NOT_FOUND, i, rec, r.ret))

\* t.addNode(x, parent) with a payload x that a live slot already holds
\* (GenericTree only: the other classes do not look payloads up).
AddNodeHeld ==
  /\ variant = "GT" /\ status = "ok" /\ CanAdd
  /\ \E x \in LivePayloads(nodes, free_list),
        parent \in {NoPayload} \cup LivePayloads(nodes, free_list) :
       LET r == addNode_GT(nodes, free_list, x, parent)
       IN Bounded(r) /\ Apply(r, Call("addNode", x, parent, NOT_FOUND, FALSE, r.ret))

\* The seeds the caller passes to walk_and_pass.
Seeds == {0, 2}

\* int i_top = tree.indexOfTopNode();
IndexOfTopNode ==
  /\ status = "ok" /\ doc = Nil
  /\ LET top == indexOfTopNode(nodes, free_list)
     IN /\ status' = top.st
        /\ last' = Call("indexOfTopNode", NoPayload, NOT_FOUND, NOT_FOUND, FALSE,
                        IF top.st = "ok" THEN top.i ELSE NOT_FOUND)
  /\ visits' = <<>>
  /\ UNCHANGED <<variant, nodes, free_list, orphaned, misused, max_live, doc, tree2, items>>

\* tree.walk(f);
Walk ==
  /\ status = "ok" /\ doc = Nil
  /\ LET w == IF variant = "NL" THEN walk_NL(nodes, free_list, DEFAULT_START, Len(nodes) + 1)
              ELSE walk(nodes, free_list, DEFAULT_START, 0, Len(nodes))
     IN /\ status' = w.st
        /\ visits' = w.visits
  /\ last' = Call("walk", NoPayload, NOT_FOUND, NOT_FOUND, FALSE, NOT_FOUND)
  /\ UNCHANGED <<variant, nodes, free_list, orphaned, misused, max_live, doc, tree2, items>>

\* tree.walk_and_pass(f, seed);  (GenericTree_Referential only)
WalkAndPass ==
  /\ variant = "GTR" /\ status = "ok" /\ doc = Nil
  /\ \E seed \in Seeds :
       LET w == walk_and_pass(nodes, free_list, seed, DEFAULT_START, Len(nodes))
       IN /\ status' = w.st
          /\ visits' = w.visits
          /\ last' = Call("walk_and_pass", seed, NOT_FOUND, NOT_FOUND, FALSE, NOT_FOUND)
  /\ UNCHANGED <<variant, nodes, free_list, orphaned, misused, max_live, doc, tree2, items>>

Init ==
  /\ variant \in Variants
  /\ nodes = <<>>
  /\ free_list = <<>>
  /\ status = "ok"
  /\ last = Call("new", NoPayload, NOT_FOUND, NOT_FOUND, FALSE, NOT_FOUND)
  /\ orphaned = FALSE
  /\ misused = FALSE
  /\ max_live = Cardinality(LiveSet(nodes, free_list))
  /\ doc = Nil
  /\ tree2 = Tree(<<>>, <<>>, "none")
  /\ visits = <<>>
  /\ items = <<>>

\* The tree of the example program after its first calls: a root and
\* Siblings children attached to it one after the other.
Siblings == 3
RECURSIVE ExampleTree(_)
ExampleTree(n) ==
  IF n = 0 THEN addNode_GTR(<<>>, <<>>, 1, NOT_FOUND)
  ELSE LET t == ExampleTree(n - 1)
       IN addNode_GTR(t.nodes, t.free_list, 1, 0)

InitOrder ==
  /\ variant = "GTR"
  /\ nodes = ExampleTree(Siblings).nodes
  /\ free_list = ExampleTree(Siblings).free_list
  /\ status = "ok"
  /\ last = Call("addNode", 1, 0, NOT_FOUND, FALSE, Siblings)
  /\ orphaned = FALSE
  /\ misused = FALSE
  /\ max_live = Cardinality(LiveSet(nodes, free_list))
  /\ doc = Nil
  /\ tree2 = Tree(<<>>, <<>>, "none")
  /\ visits = <<>>
  /\ items = <<>>

AddNode == AddNode_GTR \/ AddNode_GT \/ AddNode_NL
RemoveRecursive == RemoveNode_GTR(TRUE) \/ RemoveNode_GT(TRUE) \/ RemoveNode_NL(TRUE)
RemoveSoft == RemoveNode_GTR(FALSE) \/ RemoveNode_GT(FALSE) \/ RemoveNode_NL(FALSE)

\* Every public mutator, recursive and non-recursive removal alike.
Next == AddNode \/ RemoveRecursive \/ RemoveSoft \/ Reset
Spec == Init /\ [][Next]_vars

\* Callers that only ever remove whole subtrees.
NextRec == AddNode \/ RemoveRecursive \/ Reset
SpecRec == Init /\ [][NextRec]_vars

\* Callers that build a tree, removing whole subtrees only, then serialize
\* it and load the document into a second tree.
NextCodec == NextRec \/ ToDiatom \/ FromDiatom
SpecCodec == Init /\ [][NextCodec]_vars

\* The example program's tree, with subtrees removed and nodes attached
\* again.
NextOrder == AddNode_GTR \/ RemoveNode_GTR(TRUE)
SpecOrder == InitOrder /\ [][NextOrder]_vars

\* Callers that save the tree and load a document made from the saved one
\* into it.
NextLoad == NextRec \/ ToDiatom \/ LoadDiatom
SpecLoad == Init /\ [][NextLoad]_vars

\* Callers that use the tree correctly up to one call whose argument names
\* no live node.
NextMisuse == NextRec \/ AddNodeBadParent \/ RemoveNodeNotLive
SpecMisuse == Init /\ [][NextMisuse]_vars

\* A GenericTree_Nodeless whose caller keeps the items in ext_nodes and
\* inserts through addNodeAndInsert only.
InitInsert == Init /\ variant = "NL"
NextInsert == AddNodeAndInsert \/ RemoveNode_NL(TRUE) \/ RemoveNode_NL(FALSE) \/ Reset
SpecInsert == InitInsert /\ [][NextInsert]_vars

\* Callers that may hand addNode a payload the tree already holds.
NextHeld == NextRec \/ AddNodeHeld
SpecHeld == Init /\ [][NextHeld]_vars

\* Callers that build a tree, removing whole subtrees only, and query and
\* traverse it in between.
NextWalk == NextRec \/ IndexOfTopNode \/ Walk \/ WalkAndPass
SpecWalk == Init /\ [][NextWalk]_vars

\* ------------------------------------------------------------ vocabulary

Live == LiveSet(nodes, free_list)
ParentOf(ns, i) == ns[i + 1].index_of_parent
ChildrenOf(ns, i) == ns[i + 1].children
Roots(ns, fl) == {i \in LiveSet(ns, fl) : ParentOf(ns, i) = NOT_FOUND}
Count(seq, v) == Cardinality({k \in 1..Len(seq) : seq[k] = v})
Range(seq) == {seq[k] : k \in 1..Len(seq)}

\* The slots below i in the children lists, i included.
RECURSIVE SubtreeOf(_, _, _)
SubtreeOf(ns, i, fuel) ==
  IF ~InRangeU(i, Len(ns)) \/ fuel = 0 THEN {i}
  ELSE {i} \cup UNION {SubtreeOf(ns, c, fuel - 1) : c \in Range(ChildrenOf(ns, i))}

\* The last call was op and it returned normally.
Returned(op) == last.op = op /\ status = "ok"

\* C2 - Single-root invariant: after every operation, among the live slots
\* at most one has parent = none, and exactly one has when the tree is not
\* empty.
SingleRoot ==
  status = "ok" =>
    /\ Cardinality(Roots(nodes, free_list)) <= 1
    /\ (Live # {} => Cardinality(Roots(nodes, free_list)) = 1)

\* C3 - Parent-link invariant: after every operation, the parent p of a live
\* slot i, when it is not none, is a live slot and children(p) contains i
\* exactly once.
ParentLink ==
  status = "ok" =>
    \A i \in Live :
      LET p == ParentOf(nodes, i)
      IN p # NOT_FOUND => p \in Live /\ Count(ChildrenOf(nodes, p), i) = 1

\* C4 - Free-list invariant: after every operation, free_list has no
\* duplicates, its entries are positions of the node array, the number of
\* live slots is Len(nodes) - Len(free_list), and isEmpty() is true exactly
\* when no slot is live.
FreeListOK ==
  status = "ok" =>
    /\ \A k \in 1..Len(free_list) : Count(free_list, free_list[k]) = 1
    /\ \A k \in 1..Len(free_list) : InRangeU(free_list[k], Len(nodes))
    /\ Cardinality(Live) = Len(nodes) - Len(free_list)
    /\ (isEmpty(nodes, free_list) <=> Live = {})

\* C1 - Rebase: on a non-empty tree, addNode with no parent returns, and
\* afterwards indexOfTopNode() is the new index, the new node has no parent
\* and the children list [old root], the old root's parent is the new index
\* and the old root keeps its children list.
Rebase ==
  [][(last'.op = "addNode" /\ last'.parent = (IF variant = "GT" THEN NoPayload ELSE NOT_FOUND)
        /\ LiveSet(nodes, free_list) # {})
      => /\ status' = "ok"
         /\ \E old \in Roots(nodes, free_list) :
              LET new == last'.ret
              IN /\ Roots(nodes, free_list) = {old}
                 /\ indexOfTopNode(nodes', free_list') = [st |-> "ok", i |-> new]
                 /\ ParentOf(nodes', new) = NOT_FOUND
                 /\ ChildrenOf(nodes', new) = <<old>>
                 /\ ParentOf(nodes', old) = new
                 /\ ChildrenOf(nodes', old) = ChildrenOf(nodes, old)]_vars

\* C5 - LIFO slot reuse: addNode returns the last entry of free_list and
\* removes it whenever free_list is not empty, and returns Len(nodes),
\* appending a slot, only when it is empty; removeNode appends the slots it
\* frees at the end of free_list, the named slot first.  Hence after a then b
\* are freed the next two insertions return b then a.
LifoReuse ==
  [][/\ last'.op = "addNode" /\ status' = "ok"
        => IF Len(free_list) > 0
           THEN /\ last'.ret = free_list[Len(free_list)]
                /\ free_list' = SubSeq(free_list, 1, Len(free_list) - 1)
                /\ Len(nodes') = Len(nodes)
           ELSE /\ last'.ret = Len(nodes)
                /\ Len(nodes') = Len(nodes) + 1
                /\ free_list' = free_list
     /\ last'.op = "removeNode" /\ status' = "ok"
        => /\ Len(free_list') > Len(free_list)
           /\ SubSeq(free_list', 1, Len(free_list)) = free_list
           /\ variant # "GT" => free_list'[Len(free_list) + 1] = last'.i
           /\ variant = "GT" => nodes[free_list'[Len(free_list) + 1] + 1].node = last'.x]_vars

\* An insertion has recycled a slot while another freed slot stays behind it
\* on the free list.
LifoReuseWitness ==
  /\ Returned("addNode")
  /\ last.ret < Len(nodes) - 1
  /\ Len(free_list) > 0

\* The slot a removeNode call names: its index argument, or (GT) the live
\* slot that holds its payload argument.
Target(ns, fl, call) ==
  IF variant = "GT"
  THEN CHOOSE i \in LiveSet(ns, fl) : ns[i + 1].node = call.x
  ELSE call.i

\* The slots above i along the parent links.
RECURSIVE AncestorsOf(_, _, _)
AncestorsOf(ns, i, fuel) ==
  IF ~InRangeU(i, Len(ns)) \/ fuel = 0 \/ ParentOf(ns, i) = NOT_FOUND THEN {}
  ELSE {ParentOf(ns, i)} \cup AncestorsOf(ns, ParentOf(ns, i), fuel - 1)

Without(seq, v) == SelectSeq(seq, LAMBDA e : e # v)

\* C6 - Recursive removal frees exactly the subtree: removeNode(i, true) on a
\* live i returns, appends to free_list i and every descendant of i, each
\* once, removes i from its parent's children list and leaves every other
\* live slot unchanged.
RecursiveRemoval ==
  [][(last'.op = "removeNode" /\ last'.rec)
      => LET i == Target(nodes, free_list, last')
             p == ParentOf(nodes, i)
             sub == SubtreeOf(nodes, i, Len(nodes))
             added == SubSeq(free_list', Len(free_list) + 1, Len(free_list'))
         IN /\ status' = "ok"
            /\ SubSeq(free_list', 1, Len(free_list)) = free_list
            /\ Range(added) = sub
            /\ Len(added) = Cardinality(sub)
            /\ Len(nodes') = Len(nodes)
            /\ p # NOT_FOUND =>
                 /\ ChildrenOf(nodes', p) = Without(ChildrenOf(nodes, p), i)
                 /\ ParentOf(nodes', p) = ParentOf(nodes, p)
                 /\ nodes'[p + 1].node = nodes[p + 1].node
            /\ \A j \in LiveSet(nodes, free_list) \ (sub \cup {p}) :
                 nodes'[j + 1] = nodes[j + 1]]_vars

\* C7 - Full removal: in every variant, recursively removing the current
\* root returns and leaves isEmpty() true with Len(free_list) = Len(nodes),
\* the number of slots allocated since the last reset.
FullRemoval ==
  [][(last'.op = "removeNode" /\ last'.rec
        /\ Target(nodes, free_list, last') \in Roots(nodes, free_list))
      => /\ status' = "ok"
         /\ isEmpty(nodes', free_list')
         /\ LiveSet(nodes', free_list') = {}
         /\ Len(free_list') = Len(nodes')
         /\ Len(nodes') = Len(nodes)]_vars

\* C10 as stated - Index stability: a live slot of GenericTree_Referential
\* stays live with the same payload through every addNode and removeNode
\* other than the removal of the slot itself or the recursive removal of one
\* of its ancestors.
IndexStability ==
  [][(variant = "GTR" /\ last'.op \in {"addNode", "removeNode"})
      => \A j \in LiveSet(nodes, free_list) :
           \/ last'.op = "removeNode" /\ last'.i = j
           \/ last'.op = "removeNode" /\ last'.rec
                /\ last'.i \in AncestorsOf(nodes, j, Len(nodes))
           \/ /\ j \in LiveSet(nodes', free_list')
              /\ nodes'[j + 1].node = nodes[j + 1].node]_vars

\* C10 - Index stability, for trees in which no node that had children has
\* been removed non-recursively since the last reset: a live slot of
\* GenericTree_Referential stays live with the same payload through every
\* addNode and removeNode other than the removal of the slot itself or the
\* recursive removal of one of its ancestors.
IndexStabilityNoOrphans ==
  [][(variant = "GTR" /\ ~orphaned /\ last'.op \in {"addNode", "removeNode"})
      => \A j \in LiveSet(nodes, free_list) :
           \/ last'.op = "removeNode" /\ last'.i = j
           \/ last'.op = "removeNode" /\ last'.rec
                /\ last'.i \in AncestorsOf(nodes, j, Len(nodes))
           \/ /\ j \in LiveSet(nodes', free_list')
              /\ nodes'[j + 1].node = nodes[j + 1].node]_vars

\* A removal in a tree without orphans has left two other slots live, one of
\* them with a lower index than the freed one.
IndexStabilityWitness ==
  /\ variant = "GTR" /\ ~orphaned
  /\ Returned("removeNode")
  /\ Cardinality(Live) = 2
  /\ \E j \in Live : j > last.i

\* C8 - Round trip (GenericTree and GenericTree_Referential): loading
\* tree.toDiatom() into any target tree returns and gives the target the
\* same node array (payload, parent index and children sequence at every
\* position, live or freed) and the same free_list sequence; so
\* indexOfTopNode and the walk order agree.
RoundTrip ==
  (variant \in {"GT", "GTR"} /\ tree2.status # "none")
    => /\ doc = (IF variant = "GT" THEN toDiatom_GT(nodes, free_list, Vec).d
                 ELSE toDiatom_GTR(nodes, free_list))
       /\ tree2.status = "ok"
       /\ tree2.nodes = nodes
       /\ tree2.free_list = free_list
       /\ indexOfTopNode(tree2.nodes, tree2.free_list) = indexOfTopNode(nodes, free_list)

\* A GenericTree with live and freed slots has been loaded into a target that
\* was in use.
RoundTripWitness ==
  /\ variant = "GT"
  /\ last.op = "fromDiatom" /\ last.i > 0
  /\ tree2.status = "ok"
  /\ Len(free_list) > 0
  /\ Cardinality(Live) >= 2

\* C9 - GenericTree_Nodeless encode of the free list: the free_list section
\* of toDiatom() maps position k to free_list[k], so that the tree loaded from
\* it has the same free_list sequence.
NodelessFreeListEncode ==
  (variant = "NL" /\ doc # Nil)
    => /\ Field(doc, "free_list") = IndexTable(free_list)
       /\ tree2.status # "none" => tree2.free_list = free_list

\* C11 - indexOfTopNode returns none exactly when the tree is empty, and
\* otherwise the unique live slot whose parent is none.
IndexOfTopNodeIsRoot ==
  last.op = "indexOfTopNode"
    => /\ status = "ok"
       /\ last.ret = NOT_FOUND <=> Live = {}
       /\ Live # {} => Roots(nodes, free_list) = {last.ret}

\* C12 - Termination: every public operation runs to completion; the
\* parent-following loop of indexOfTopNode and the recursion of walk and
\* removeChildren end.
Termination == status # "diverge"

\* The slots visited, in visiting order.
VisitedSlots(vs) == [k \in 1..Len(vs) |-> vs[k].i]

\* The position of slot i in the visiting order (0 when it is not visited).
VisitPos(vs, i) ==
  IF \E k \in 1..Len(vs) : vs[k].i = i
  THEN CHOOSE k \in 1..Len(vs) : vs[k].i = i /\ \A m \in 1..(k - 1) : vs[m].i # i
  ELSE 0

\* The visiting order is a pre-order of the live nodes: every live slot once,
\* with its payload, the root first, a node after its parent, siblings in
\* the order of the parent's children list.
IsPreOrder(ns, fl, vs) ==
  /\ Range(VisitedSlots(vs)) = LiveSet(ns, fl)
  /\ Len(vs) = Cardinality(LiveSet(ns, fl))
  /\ \A k \in 1..Len(vs) :
       /\ vs[k].node = ns[vs[k].i + 1].node
       /\ IF ParentOf(ns, vs[k].i) = NOT_FOUND THEN k = 1
          ELSE LET kp == VisitPos(vs, ParentOf(ns, vs[k].i)) IN 0 < kp /\ kp < k
  /\ \A p \in LiveSet(ns, fl) :
       SelectSeq(VisitedSlots(vs), LAMBDA i : i \in Range(ChildrenOf(ns, p)))
         = ChildrenOf(ns, p)

\* C13 - walk (GenericTree, GenericTree_Referential) is a pre-order
\* depth-first traversal that does not mutate the tree: it returns after
\* calling the visitor once for every live node, a node before its
\* descendants, siblings in children-list order, and leaves nodes and
\* free_list as they were.
WalkPreOrder ==
  [][(last'.op = "walk" /\ variant # "NL")
      => /\ status' = "ok"
         /\ nodes' = nodes /\ free_list' = free_list
         /\ IsPreOrder(nodes, free_list, visits')]_vars

\* C14 - walk on an empty tree is a no-op in every variant: with no live slot
\* the visitor is not called and no slot is accessed.
WalkEmptyNoOp ==
  [][(last'.op = "walk" /\ LiveSet(nodes, free_list) = {})
      => status' = "ok" /\ visits' = <<>>]_vars

\* C15 - walk_and_pass threads the parent context: it ends as walk does and
\* visits the same nodes in the same order; the first visitor call receives
\* the caller's seed and every other call receives the value the visitor
\* returned for the node's parent, so with f = parent value + 1 a node at
\* depth d receives seed + d.
WalkAndPassThreads ==
  [][last'.op = "walk_and_pass"
      => LET w == walk(nodes, free_list, DEFAULT_START, 0, Len(nodes))
             seed == last'.x
         IN /\ status' = w.st
            /\ nodes' = nodes /\ free_list' = free_list
            /\ VisitedSlots(visits') = VisitedSlots(w.visits)
            /\ \A k \in 1..Len(visits') :
                 LET v == visits'[k]
                 IN /\ v.node = nodes[v.i + 1].node
                    /\ v.ret = Visitor(v.node, v.arg, v.i)
                    /\ k = 1 => v.arg = seed
                    /\ k > 1 => \E j \in 1..(k - 1) :
                                  /\ visits'[j].i = ParentOf(nodes, v.i)
                                  /\ v.arg = visits'[j].ret
                    /\ status' = "ok" =>
                         v.arg = seed + Cardinality(AncestorsOf(nodes, v.i, Len(nodes)))]_vars

\* walk_and_pass with a non-zero seed has visited a root, its child and its
\* grandchild.
WalkAndPassWitness ==
  /\ Returned("walk_and_pass") /\ last.x = 2
  /\ Len(visits) = 3
  /\ visits[1].arg = 2 /\ visits[2].arg = 3 /\ visits[3].arg = 4

\* C16 - addNode with a parent argument that names no live slot (a freed
\* slot, an index >= Len(nodes), a negative index other than none) fails on
\* an assertion and leaves nodes and free_list unchanged.
BadParentRejected ==
  [][(last'.op = "addNode" /\ NamesNoLiveNode(last'))
      => /\ status' = "assert"
         /\ nodes' = nodes /\ free_list' = free_list]_vars

\* C17 - removeNode of an index or payload that is not live (already freed,
\* or out of range) fails on an assertion and leaves nodes and free_list
\* unchanged, so no index is put on the free list twice.
NotLiveRemovalRejected ==
  [][(last'.op = "removeNode" /\ NamesNoLiveNode(last'))
      => /\ status' = "assert"
         /\ nodes' = nodes /\ free_list' = free_list]_vars

\* C18 - fromDiatom on a malformed document (not a table, no tree table, no
\* free_list table) fails on an assertion and the target tree's nodes and
\* free_list are what they were before the call.
MalformedLeavesTarget ==
  [][(last'.op = "fromDiatom" /\ doc # Nil /\ Malformed(Documents(doc)[last'.x]))
      => /\ status' = "assert"
         /\ nodes' = nodes /\ free_list' = free_list]_vars

\* C19 - in every variant, an addNode that pops a free-list index >=
\* Len(nodes), as a decoded free list can contain, fails on an assertion
\* and writes nothing.
PoppedIndexChecked ==
  [][(/\ last'.op = "addNode"
      /\ free_list # <<>> /\ back(free_list) >= Len(nodes))
      => /\ status' = "assert"
         /\ nodes' = nodes]_vars

\* C20 - Non-recursive removal is a soft delete: removeNode(i, false) on a
\* live slot i returns, appends only i to free_list and takes i out of its
\* parent's children list; every child of i stays live with parent field i,
\* and the payload, parent and children of every other slot are unchanged.
SoftDelete ==
  [][(last'.op = "removeNode" /\ ~last'.rec /\ ~NamesNoLiveNode(last'))
      => LET i == Target(nodes, free_list, last')
             p == ParentOf(nodes, i)
         IN /\ status' = "ok"
            /\ free_list' = Append(free_list, i)
            /\ Len(nodes') = Len(nodes)
            /\ p # NOT_FOUND
                 => ChildrenOf(nodes', p) = Without(ChildrenOf(nodes, p), i)
            /\ \A c \in Range(ChildrenOf(nodes, i)) :
                 c \in LiveSet(nodes', free_list') /\ ParentOf(nodes', c) = i
            /\ \A j \in 0..(Len(nodes) - 1) :
                 /\ nodes'[j + 1].node = nodes[j + 1].node
                 /\ ParentOf(nodes', j) = ParentOf(nodes, j)
                 /\ j # p => ChildrenOf(nodes', j) = ChildrenOf(nodes, j)]_vars

\* The sequence seq without its first entry equal to v.
WithoutFirst(seq, v) ==
  LET hits == {k \in 1..Len(seq) : seq[k] = v}
  IN IF hits = {} THEN seq
     ELSE LET it == CHOOSE k \in hits : \A m \in hits : k <= m
          IN SubSeq(seq, 1, it - 1) \o SubSeq(seq, it + 1, Len(seq))

\* C21 - Children order is insertion order (GenericTree_Referential): an
\* addNode with a parent appends the new index at the end of the parent's
\* children list, a removeNode erases only the removed index from its
\* parent's list, and every other children list of a slot that is not
\* written keeps its entries in their order.
ChildrenOrder ==
  [][(variant = "GTR" /\ last'.op \in {"addNode", "removeNode"} /\ status' = "ok")
      => LET p == IF last'.op = "addNode" THEN last'.parent
                  ELSE ParentOf(nodes, last'.i)
         IN /\ (last'.op = "addNode" /\ p # NOT_FOUND)
                 => ChildrenOf(nodes', p) = Append(ChildrenOf(nodes, p), last'.ret)
            /\ (last'.op = "removeNode" /\ p # NOT_FOUND)
                 => /\ last'.i \in Range(ChildrenOf(nodes, p))
                    /\ ChildrenOf(nodes', p) = WithoutFirst(ChildrenOf(nodes, p), last'.i)
            /\ \A j \in 0..(Len(nodes) - 1) :
                 (j # p /\ (last'.op = "addNode" => j # last'.ret))
                   => ChildrenOf(nodes', j) = ChildrenOf(nodes, j)]_vars

\* The second of three siblings has been removed and the other two are
\* listed in the order they were attached.
ChildrenOrderWitness ==
  /\ variant = "GTR" /\ Returned("removeNode") /\ last.i = 2
  /\ ChildrenOf(nodes, 0) = <<1, 3>>

\* C22 - No shrink, minimal growth: through every addNode and removeNode on
\* live indices Len(nodes) never decreases, a slot is appended only when
\* every existing slot is live, and Len(nodes) equals the largest number of
\* nodes that were live at one time since the last reset.
NoShrinkMinimalGrowth ==
  [][(last'.op \in {"addNode", "removeNode"} /\ status' = "ok")
      => /\ Len(nodes') >= Len(nodes)
         /\ Len(nodes') > Len(nodes)
              => /\ Len(nodes') = Len(nodes) + 1
                 /\ LiveSet(nodes, free_list) = 0..(Len(nodes) - 1)
         /\ Len(nodes') = max_live']_vars

\* A slot has been recycled after the array reached its bound: fewer nodes
\* are live than the array has slots.
NoShrinkWitness ==
  /\ Returned("addNode") /\ last.ret < Len(nodes) - 1
  /\ Len(nodes) = MaxNodes /\ max_live = MaxNodes
  /\ Cardinality(Live) < MaxNodes

\* Slot i followed by the slots below it, a slot before its own children and
\* the children in list order.
RECURSIVE DiscoveryOrder(_, _, _), DiscoveryOrderAll(_, _, _)
DiscoveryOrder(ns, i, fuel) ==
  IF ~InRangeU(i, Len(ns)) \/ fuel = 0 THEN <<i>>
  ELSE <<i>> \o DiscoveryOrderAll(ns, ChildrenOf(ns, i), fuel - 1)
DiscoveryOrderAll(ns, cs, fuel) ==
  IF cs = <<>> THEN <<>>
  ELSE DiscoveryOrder(ns, Head(cs), fuel) \o DiscoveryOrderAll(ns, Tail(cs), fuel)

\* C23 - Free-list order of a recursive removal is discovery order:
\* removeNode(i, true) appends to free_list first i and then the descendants
\* of i, each node before its own children, whatever the depth of the
\* subtree.
FreedInDiscoveryOrder ==
  [][(last'.op = "removeNode" /\ last'.rec /\ status' = "ok")
      => free_list' = free_list \o
           DiscoveryOrder(nodes, Target(nodes, free_list, last'), Len(nodes))]_vars

\* C24 - GenericTree_Nodeless::removeNode accepts every live index: for a
\* live slot i, slot 0 and the children of slot 0 included, the call returns,
\* i is on the free list afterwards and i is no longer in the children list
\* of its parent.
NodelessRemoveAnyLive ==
  [][(variant = "NL" /\ last'.op = "removeNode" /\ ~NamesNoLiveNode(last'))
      => LET p == ParentOf(nodes, last'.i)
         IN /\ status' = "ok"
            /\ indexIsInFreeList(free_list', last'.i)
            /\ p # NOT_FOUND
                 => ChildrenOf(nodes', p) = WithoutFirst(ChildrenOf(nodes, p), last'.i)]_vars

\* C25 - Structural-inconsistency detection: in every variant, a removeNode
\* of a live slot whose parent field is p while the children list of p does
\* not contain the slot fails on an assertion.
InconsistencyDetected ==
  [][(/\ last'.op = "removeNode" /\ ~NamesNoLiveNode(last')
      /\ LET i == Target(nodes, free_list, last')
             p == ParentOf(nodes, i)
         IN /\ InRangeU(p, Len(nodes))
            /\ i \notin Range(ChildrenOf(nodes, p)))
      => status' = "assert"]_vars

\* Following the parent links from slot i reaches a slot without parent in
\* at most fuel steps.
RECURSIVE ReachesRoot(_, _, _)
ReachesRoot(ns, i, fuel) ==
  IF ~InRangeU(i, Len(ns)) THEN FALSE
  ELSE IF ParentOf(ns, i) = NOT_FOUND THEN TRUE
  ELSE IF fuel = 0 THEN FALSE
  ELSE ReachesRoot(ns, ParentOf(ns, i), fuel - 1)

\* C26 - Acyclicity: in every state reached by addNode and recursive
\* removeNode calls on live indices no live slot is its own parent or is in
\* its own children list, and the parent links lead from every live slot to
\* a slot without parent in at most Len(nodes) steps.
Acyclic ==
  status = "ok" =>
    \A i \in Live :
      /\ ParentOf(nodes, i) # i
      /\ i \notin Range(ChildrenOf(nodes, i))
      /\ ReachesRoot(nodes, i, Len(nodes))

\* C27 - Downward link consistency: in every state reached by addNode and
\* recursive removeNode calls on live indices, every entry c of the children
\* list of a live slot p is a live slot with parent field p, and the list
\* has no entry twice.
ChildLink ==
  status = "ok" =>
    \A p \in Live :
      \A c \in Range(ChildrenOf(nodes, p)) :
        /\ c \in Live
        /\ ParentOf(nodes, c) = p
        /\ Count(ChildrenOf(nodes, p), c) = 1

\* C28 - Payload resolution in GenericTree: whenever a payload x is held by
\* a live slot, indexOfNode(x) is a live slot that holds x, never a freed
\* slot that still stores the pointer.
PayloadResolution ==
  (variant = "GT" /\ status = "ok") =>
    \A x \in LivePayloads(nodes, free_list) :
      LET i == indexOfNode(nodes, x)
      IN i \in Live /\ nodes[i + 1].node = x
\* C29 - GenericTree: addNode(x, parent) with x held by a live slot fails
\* its assertion and changes nothing, and no payload is ever held by two
\* live slots.
PayloadUnique ==
  [][variant = "GT" =>
       /\ (last'.op = "addNode" /\ last'.x \in LivePayloads(nodes, free_list))
            => (status' = "assert" /\ nodes' = nodes /\ free_list' = free_list)
       /\ status' = "ok" =>
            \A i, j \in LiveSet(nodes', free_list') :
              nodes'[i + 1].node = nodes'[j + 1].node => i = j]_vars

\* What a call does to the caller's vector: addNodeAndInsert writes the
\* item at the returned index, which is at most the vector's length, and
\* leaves every other entry alone; other calls leave the vector alone; every
\* live slot has an entry.
ItemsFollowInsertions ==
  /\ (last'.op = "addNodeAndInsert" /\ status' = "ok") =>
       /\ last'.ret >= 0 /\ last'.ret <= Len(items)
       /\ Len(items') >= Len(items)
       /\ items'[last'.ret + 1] = last'.x
       /\ \A k \in 1..Len(items) : k # last'.ret + 1 => items'[k] = items[k]
  /\ last'.op # "addNodeAndInsert" => items' = items
  /\ \A i \in LiveSet(nodes', free_list') : i < Len(items')

\* C30 - GenericTree_Nodeless filled through addNodeAndInsert only: after
\* every operation the caller's vector is as long as nodes, and it follows
\* the insertions.
ExtAligned ==
  [][variant = "NL" => (Len(items') = Len(nodes') /\ ItemsFollowInsertions)]_vars

\* C30, as the code has it: the caller's vector is at least as long as
\* nodes after every operation, and every operation but reset keeps the two
\* lengths equal when they were equal before it.
ExtCovers ==
  [][variant = "NL" =>
       /\ Len(items') >= Len(nodes')
       /\ (last'.op # "reset" /\ Len(items) = Len(nodes)) => Len(items') = Len(nodes')
       /\ ItemsFollowInsertions]_vars

\* An insertion after a reset reuses an entry of the longer vector.
ExtCoversWitness ==
  /\ variant = "NL" /\ Returned("addNodeAndInsert")
  /\ Len(items) > Len(nodes)
  /\ items[last.ret + 1] = last.x
  /\ \E k \in 1..Len(items) : items[k] # last.x
====
